---- MODULE Spec2Model ----
\* Model of TransformerDecoderBaseWithTM
\* (fairseq/models/transformer/transformer_decoder_with_TM_7_attn_2.py):
\* construction from the key=value configuration file, and forward(): the
\* dispatch among the fusion strategies and the arithmetic of each one.
\*
\* Tensors are modelled for one target position of one batch element.
\* Probabilities are exact rationals [n, d] in lowest terms; a softmax is
\* modelled on the exponentials of its logits (positive integers), so that
\* softmax(z)_i = e_i / (e_1 + ... + e_k) is computed exactly. Floating
\* point rounding is not modelled. The learned layers (attention
\* projections, diverter, feed-forward, output projection, learnable_p
\* networks) are fixed deterministic functions of their inputs.
EXTENDS Integers, Sequences, FiniteSets, TLC

VARIABLES
    pc,      \* "new", "built", or the exception __init__ raised
    cfg,     \* with_TM_ensemble, TM_num, with_TM_learnable_p, with_TM_learnable_p_model
    params,  \* the learnable_p parameters __init__ built
    batch,   \* the input of the last forward call
    out,     \* what the last forward call returned or raised
    prev,    \* history: the similarity entry and the strategies of the call before
    file,    \* the configuration file __init__ found
    future_mask,  \* self._future_mask: the cached mask and its device
    mask_call,    \* the last buffered_future_mask call: cache before, arguments, result
    normalized    \* the last get_normalized_probs call: arguments and result

vars == <<pc, cfg, params, batch, out, prev, file, future_mask, mask_call, normalized>>

\* ---------------------------------------------------------------- bounds

\* Longest packed exemplar sequence (memory_encoder_out.size(0)).
MaxLen == 4

\* Largest TM_num a configuration file of the model sets.
MaxTMNum == 2

\* Token ids of the dictionary (the vocabulary axis of the output).
Vocab == {0, 1}

\* Values of the decoder state x returned by extract_features.
XVals == {0, 1}

\* Longest tensor buffered_future_mask is called with.
MaxDim == 3

\* The devices a tensor can be on.
Devices == {"cpu", "cuda"}

\* ------------------------------------------------------- exact rationals

RECURSIVE GCD(_, _)
GCD(a, b) == IF b = 0 THEN a ELSE GCD(b, a % b)

Q(n, d) == LET g == GCD(n, d) IN [n |-> n \div g, d |-> d \div g]

QZero == [n |-> 0, d |-> 1]

QOne == [n |-> 1, d |-> 1]

QAdd(a, b) == Q(a.n * b.d + b.n * a.d, a.d * b.d)

QMul(a, b) == Q(a.n * b.n, a.d * b.d)

RECURSIVE QSumSeq(_)
QSumSeq(s) == IF s = << >> THEN QZero ELSE QAdd(Head(s), QSumSeq(Tail(s)))

RECURSIVE SumOver(_, _)
SumOver(f, S) ==
    IF S = {} THEN 0
    ELSE LET i == CHOOSE u \in S : TRUE IN f[i] + SumOver(f, S \ {i})

\* The sum of the rationals f[i], i in S.
RECURSIVE QSumOver(_, _)
QSumOver(f, S) ==
    IF S = {} THEN QZero
    ELSE LET i == CHOOSE u \in S : TRUE IN QAdd(f[i], QSumOver(f, S \ {i}))

Min(a, b) == IF a < b THEN a ELSE b

\* F.softmax(., dtype=float32) given the exponentials e of the logits.
SoftmaxNoNorm(e) == [i \in DOMAIN e |-> Q(e[i], 1)]

Softmax(e) == [i \in DOMAIN e |-> Q(e[i], SumOver(e, DOMAIN e))]

\* ------------------------------------------------ the packed memory bank

\* encoder_out["memory_encoder_out"][0]: one encoded vector per position.
MemoryOf(b) == [j \in 1..Len(b.memory) |-> b.memory[j].enc]

\* encoder_out["memory_encoder_padding_mask"][0].
PaddingMaskOf(b) == [j \in 1..Len(b.memory) |-> b.memory[j].pad]

\* encoder_out["TMs"][0]: the vocabulary id each position copies.
CopySeqOf(b) == [j \in 1..Len(b.memory) |-> b.memory[j].tok]

\* torch.Tensor.chunk(n): consecutive pieces of ceil(len / n) positions; the
\* last one may be shorter, and fewer than n pieces come out when the length
\* does not allow n of them.
Chunk(s, n) ==
    LET size == (Len(s) + n - 1) \div n
        cnt  == (Len(s) + size - 1) \div size
    IN  [i \in 1..cnt |-> SubSeq(s, (i - 1) * size + 1, Min(i * size, Len(s)))]

\* ------------------------------------------------- the learned sub-units

\* exp of the scaled dot product of the projected query x and key k, for the
\* attention unit named unit (each unit has its own projections).
ScoreE(unit, x, k) ==
    IF unit = "alignment_layer" THEN 1 + ((x + k) % 2) ELSE 1 + ((x + k) % 3)

\* MultiheadAttention(query, key, value = key, key_padding_mask,
\* need_weights = True) with one head: masked positions are filled with -inf
\* before the softmax over the key axis; the output is the weighted sum of the
\* projected values.
MultiheadAttention(unit, x, keys, key_padding_mask) ==
    LET e == [j \in 1..Len(keys) |->
                 IF key_padding_mask[j] THEN 0 ELSE ScoreE(unit, x, keys[j])]
        w == Softmax(e)
    IN  [attn |-> QSumSeq([j \in 1..Len(keys) |-> QMul(w[j], Q(keys[j], 1))]),
         weights |-> w]

\* The mask forward hands to the attention unit with an exemplar's keys.
KeyPaddingMaskUnmasked(mask) == [j \in 1..Len(mask) |-> FALSE]

KeyPaddingMask(mask) == mask

alignment_layer(x, memory, mask) ==
    MultiheadAttention("alignment_layer", x, memory, KeyPaddingMask(mask))

\* nn.LayerNorm over the attended vector, as a feature code.
alignment_layer_norm(attn) == attn.n + 2 * attn.d

\* exp of the two logits of nn.Linear(2 * embed_dim, 2) on cat([x, attn_normalized]).
diverter(x, attn_normalized) ==
    [g \in {"gen", "copy"} |->
        IF g = "gen" THEN 1 + ((x + attn_normalized) % 2)
        ELSE 1 + ((x + 2 * attn_normalized) % 3)]

GatesNoSoftmax(x, attn_normalized) == SoftmaxNoNorm(diverter(x, attn_normalized))

\* Variant: each gate is squashed on its own.
GatesIndependent(x, attn_normalized) ==
    [g \in {"gen", "copy"} |->
        Q(diverter(x, attn_normalized)[g], diverter(x, attn_normalized)[g] + 1)]

\* gates = F.softmax(self.diverter(torch.cat([x, attn_normalized], -1)), -1)
Gates(x, attn_normalized) == Softmax(diverter(x, attn_normalized))

\* alignment_layer_norm(x + attn) followed by the residual feed-forward block
\* (ff_layer_norm, ff_layer_1, activation, dropout, ff_layer_2, dropout).
FeedForward(x, attn) == x + 3 * attn.n + attn.d

\* exp of the vocabulary logits of output_projection on the refined feature.
output_layer(features) == [v \in Vocab |-> 1 + ((features + v) % 3)]

\* Tensor.scatter_(-1, index, src): each position overwrites its slot.
RECURSIVE scatter_(_, _, _)
scatter_(probs, index, src) ==
    IF index = << >> THEN probs
    ELSE scatter_([probs EXCEPT ![Head(index)] = Head(src)],
                  Tail(index), Tail(src))

\* Tensor.scatter_add_(-1, index, src): position j adds src[j] into slot
\* index[j], one position after the other.
RECURSIVE scatter_add_(_, _, _)
scatter_add_(probs, index, src) ==
    IF index = << >> THEN probs
    ELSE scatter_add_([probs EXCEPT ![Head(index)] = QAdd(@, Head(src))],
                      Tail(index), Tail(src))

CopyProbsUngated(copy_gate, alignment_weight) == alignment_weight

\* copy_probs = (copy_gate * alignment_weight).view(seq_len, bsz, -1)
CopyProbs(copy_gate, alignment_weight) ==
    [j \in 1..Len(alignment_weight) |-> QMul(copy_gate, alignment_weight[j])]

CopyMassOverwrite(probs, index, copy_probs) == scatter_(probs, index, copy_probs)

\* probs = probs.scatter_add_(-1, index, copy_probs)
CopyMass(probs, index, copy_probs) == scatter_add_(probs, index, copy_probs)

\* One exemplar's generate + copy probabilities: attention over its memory,
\* the generate/copy gate, the refinement, the vocabulary softmax, and the
\* scatter of the copy mass.
ExemplarProbs(x, memory, mask, copy_seq) ==
    LET a == alignment_layer(x, memory, mask)
        attn_normalized == alignment_layer_norm(a.attn)
        gates == Gates(x, attn_normalized)
        soft  == Softmax(output_layer(FeedForward(x, a.attn)))
        gen   == [v \in Vocab |-> QMul(gates["gen"], soft[v])]
        copy_probs == CopyProbs(gates["copy"], a.weights)
    IN  [attn |-> a.attn,
         attn_normalized |-> attn_normalized,
         alignment_weight |-> a.weights,
         gen_gate |-> gates["gen"],
         copy_gate |-> gates["copy"],
         softmax |-> soft,
         probs |-> CopyMass(gen, copy_seq, copy_probs)]

\* -------------------------------------------------------- the strategies

\* Python's None (no configuration value is spelled this way).
None == "<None>"

\* encoder_out["TMs_similarity"][0]: the key is missing, the entry is None, or
\* it is the tensor of scores (one per exemplar slot).
SimMissing == [kind |-> "NoKey", scores |-> << >>]

SimNone == [kind |-> "None", scores |-> << >>]

SimTensor(scores) == [kind |-> "Tensor", scores |-> scores]

Strategies ==
    <<"no_ensemble", "similarity", "unscalable_linear", "attention",
      "linear", "attention_2", "mean">>

LogNoFloor(p) == [v \in Vocab |-> [log_of |-> [q |-> p[v], eps |-> 0]]]

\* log(p + 1e-12) per vocabulary id: the argument is kept as the exact
\* probability q plus eps times the floor 1e-12.
LogFloor(p) == [v \in Vocab |-> [log_of |-> [q |-> p[v], eps |-> 1]]]

\* Variant: the exemplars' probabilities are summed without their weights.
WeightedSumUnweighted(ex, w) ==
    [v \in Vocab |-> QSumSeq([i \in 1..Len(ex) |-> ex[i].probs[v]])]

\* sum over the exemplars of weight[i] * probs[i], per vocabulary id.
WeightedSum(ex, w) ==
    [v \in Vocab |-> QSumSeq([i \in 1..Len(ex) |-> QMul(w[i], ex[i].probs[v])])]

\* TM_num_memorys, TM_num_memory_encoder_padding_masks, TM_num_copy_seqs.
TM_num_memorys(b, TM_num) == Chunk(MemoryOf(b), TM_num)

TM_num_memory_encoder_padding_masks(b, TM_num) == Chunk(PaddingMaskOf(b), TM_num)

TM_num_copy_seqs(b, TM_num) == Chunk(CopySeqOf(b), TM_num)

\* The loop "for cur_idx in range(TM_num)" reads chunk cur_idx of each list.
EnoughChunks(b, TM_num) == Len(TM_num_memorys(b, TM_num)) >= TM_num

\* Variant: probs is built in place in the decoder state.
StorageStateReused(name) ==
    CASE name \in {"x", "probs"} -> "x"
      [] name \in {"memory", "cur_memory"} -> "memory_encoder_out"
      [] name \in {"memory_encoder_padding_mask",
                   "cur_memory_encoder_padding_mask"} -> "memory_encoder_padding_mask"
      [] name \in {"copy_seq", "cur_copy_seq"} -> "TMs"
      [] name = "cur_TMs_similarity" -> "TMs_similarity"
      [] OTHER -> "new"

\* The storage behind each local tensor of the fusion code: x.transpose,
\* encoder_out[...][0], chunk pieces and [:, cur_idx] are views of the inputs;
\* x.clone() and the results of modules and arithmetic are new tensors.
Storage(name) ==
    CASE name = "x" -> "x"
      [] name \in {"memory", "cur_memory"} -> "memory_encoder_out"
      [] name \in {"memory_encoder_padding_mask",
                   "cur_memory_encoder_padding_mask"} -> "memory_encoder_padding_mask"
      [] name \in {"copy_seq", "cur_copy_seq"} -> "TMs"
      [] name = "cur_TMs_similarity" -> "TMs_similarity"
      [] OTHER -> "new"

\* The storages written in place: probs.scatter_add_(-1, index, copy_probs)
\* is the only in-place operation.
Written == {Storage("probs")}

\* The decoder state iteration cur_idx of an ensemble loop reads: the state
\* extract_features returned, changed once by every earlier iteration that
\* wrote into its storage.
StateSeen(x, cur_idx) ==
    IF Storage("x") \in Written THEN (x + cur_idx - 1) % 2 ELSE x

\* The inputs as the caller finds them after the call.
InputsAfter(b) ==
    [x |-> IF "x" \in Written THEN 0 - 1 ELSE b.x,
     memory |->
        [j \in 1..Len(b.memory) |->
            [tok |-> IF "TMs" \in Written THEN 0 - 1 ELSE b.memory[j].tok,
             pad |-> IF "memory_encoder_padding_mask" \in Written
                     THEN ~b.memory[j].pad ELSE b.memory[j].pad,
             enc |-> IF "memory_encoder_out" \in Written
                     THEN 0 - 1 ELSE b.memory[j].enc]],
     sim |-> IF "TMs_similarity" \in Written /\ b.sim.kind = "Tensor"
             THEN [b.sim EXCEPT !.scores = << >>] ELSE b.sim,
     bsz |-> b.bsz,
     encoder_out |-> b.encoder_out]

\* Variant: every exemplar attends over, and copies from, the whole memory.
ExemplarsShared(b, TM_num) ==
    [i \in 1..TM_num |->
        ExemplarProbs(StateSeen(b.x, i), MemoryOf(b), PaddingMaskOf(b), CopySeqOf(b))]

\* The per-exemplar records of one forward call (loop over cur_idx).
Exemplars(b, TM_num) ==
    [i \in 1..TM_num |->
        ExemplarProbs(StateSeen(b.x, i), TM_num_memorys(b, TM_num)[i],
                      TM_num_memory_encoder_padding_masks(b, TM_num)[i],
                      TM_num_copy_seqs(b, TM_num)[i])]

\* Tensor.transpose(dim0, dim1) on the list of a tensor's axes (dims from 0).
transpose(axes, dim0, dim1) ==
    [i \in 1..Len(axes) |->
        IF i = dim0 + 1 THEN axes[dim1 + 1]
        ELSE IF i = dim1 + 1 THEN axes[dim0 + 1] ELSE axes[i]]

\* torch.stack(tensors, dim): the new axis N (one entry per exemplar) at dim.
stack(axes, dim) == SubSeq(axes, 1, dim) \o <<"N">> \o SubSeq(axes, dim + 1, Len(axes))

\* torch.sum(t, dim) and torch.mean(t, dim): axis dim is reduced away.
reduce(axes, dim) == SubSeq(axes, 1, dim) \o SubSeq(axes, dim + 2, Len(axes))

\* The axes of x as extract_features returns it: B x T x C.
FeatureAxes == <<"B", "T", "C">>

\* The axes of one exemplar's probs: x = x.transpose(0, 1), and output_layer
\* maps the channel axis to the vocabulary axis.
ProbsAxes ==
    LET x == transpose(FeatureAxes, 0, 1)
    IN  [i \in 1..Len(x) |-> IF x[i] = "C" THEN "V" ELSE x[i]]

\* Variant: the probabilities are returned in the axis order they are computed in.
OutputAxesUntransposed(strategy) == ProbsAxes

\* The axes of the tensor each branch returns.
OutputAxes(strategy) ==
    CASE strategy = "no_ensemble" -> transpose(ProbsAxes, 0, 1)
      [] strategy = "mean" -> transpose(reduce(stack(ProbsAxes, 3), 3), 0, 1)
      [] OTHER -> reduce(stack(transpose(ProbsAxes, 0, 1), 0), 0)

\* t[..., k, ...]: indexing axis dim with one integer removes that axis.
select(axes, dim) == SubSeq(axes, 1, dim) \o SubSeq(axes, dim + 2, Len(axes))

\* The axes of the weight each exemplar's probs (B x T x V) is multiplied by:
\* TMs_similarity[0] (B x N) as [:, cur_idx][:, None, None], and
\* input_for_learnable_p (B x T x N) as [:, :, cur_idx][:, :, None].
WeightAxes(strategy) ==
    CASE strategy = "similarity" -> select(<<"B", "N">>, 1) \o <<"1", "1">>
      [] strategy \in {"unscalable_linear", "attention", "linear", "attention_2"}
           -> select(<<"B", "T", "N">>, 2) \o <<"1">>
      [] OTHER -> << >>

Failure(strategy, error) ==
    [status |-> error, strategy |-> strategy, exemplars |-> << >>,
     weights |-> << >>, probs |-> << >>, lprobs |-> << >>, axes |-> << >>,
     weight_axes |-> << >>]

Success(strategy, ex, w, p) ==
    [status |-> "ok", strategy |-> strategy, exemplars |-> ex,
     weights |-> w, probs |-> p, lprobs |-> LogFloor(p),
     axes |-> OutputAxes(strategy), weight_axes |-> WeightAxes(strategy)]

\* Variant: the single pass attends without the padding mask.
NoEnsembleUnmasked(b) ==
    LET e == ExemplarProbs(b.x, MemoryOf(b),
                           [j \in 1..Len(b.memory) |-> FALSE], CopySeqOf(b))
    IN  Success("no_ensemble", <<e>>, << >>, e.probs)

\* with_TM_ensemble = False: one pass over the whole packed memory.
NoEnsemble(b) ==
    LET e == ExemplarProbs(b.x, MemoryOf(b), PaddingMaskOf(b), CopySeqOf(b))
    IN  Success("no_ensemble", <<e>>, << >>, e.probs)

\* Variant: the scores are divided by their sum (when it is positive).
SimilarityWeightsNormalized(b, TM_num) ==
    LET total == QSumSeq([i \in 1..TM_num |-> b.sim.scores[i]])
    IN  [i \in 1..TM_num |->
            IF total.n <= 0 THEN b.sim.scores[i]
            ELSE Q(b.sim.scores[i].n * total.d, b.sim.scores[i].d * total.n)]

\* Variant: the score is scaled by a factor computed from the decoder state.
SimilarityWeightsPerPosition(b, TM_num) ==
    [i \in 1..TM_num |-> QMul(Q(1, 1 + b.x), b.sim.scores[i])]

\* cur_TMs_similarity = encoder_out["TMs_similarity"][0][:, cur_idx]
SimilarityWeights(b, TM_num) == [i \in 1..TM_num |-> b.sim.scores[i]]

\* with_TM_ensemble and similarity scores given.
SimilarityWeighted(b, TM_num) ==
    IF ~EnoughChunks(b, TM_num) \/ Len(b.sim.scores) < TM_num
    THEN Failure("similarity", "IndexError")
    ELSE LET ex == Exemplars(b, TM_num)
             w  == SimilarityWeights(b, TM_num)
         IN  Success("similarity", ex, w, WeightedSum(ex, w))

\* exp of the TM_num logits of learnable_p_fc2(act(learnable_p_fc1(.))) on
\* cat([x] + attn_all).
learnable_p_fc_concat(x, attn_all) ==
    LET code == SumOver([i \in 1..Len(attn_all) |->
                            i * (attn_all[i].n + attn_all[i].d)],
                        1..Len(attn_all))
    IN  [i \in 1..Len(attn_all) |-> 1 + ((x + i * code) % 3)]

\* exp of the single logit of learnable_p_fc2(act(learnable_p_fc1(.))) on
\* cat([x, attn_normalized]) or cat([x, attn_normalized, pooled]).
learnable_p_fc(x, attn_normalized, pooled) ==
    1 + ((x + attn_normalized + pooled.n + pooled.d) % 3)

\* learnable_p_attn(cur_x, cur_clone_attn_normalized,
\* cur_clone_attn_normalized): attention of the decoder state over the
\* stack of the exemplars' normalized attended vectors, no padding mask.
learnable_p_attn(x, attn_normalized_all) ==
    MultiheadAttention("learnable_p_attn", x, attn_normalized_all,
                       [i \in 1..Len(attn_normalized_all) |-> FALSE])

LearnedWeightsRaw(model, x, ex) ==
    LET n == Len(ex)
        an == [i \in 1..n |-> ex[i].attn_normalized]
    IN  SoftmaxNoNorm([i \in 1..n |-> learnable_p_fc(x, an[i], QZero)])

\* input_for_learnable_p: the ensemble weights of the learned-weighting
\* strategy named model, over the exemplars ex.
LearnedWeights(model, x, ex) ==
    LET n == Len(ex)
        an == [i \in 1..n |-> ex[i].attn_normalized]
    IN  CASE model = "unscalable_linear" ->
               Softmax(learnable_p_fc_concat(x, [i \in 1..n |-> ex[i].attn]))
          [] model = "attention" ->
               learnable_p_attn(x, an).weights
          [] model = "linear" ->
               Softmax([i \in 1..n |-> learnable_p_fc(x, an[i], QZero)])
          [] model = "attention_2" ->
               LET pooled == learnable_p_attn(x, an).attn
               IN  Softmax([i \in 1..n |-> learnable_p_fc(x, an[i], pooled)])

\* with_TM_ensemble and with_TM_learnable_p: one of the four learned weightings.
LearnedWeighted(strategy, b, TM_num) ==
    IF ~EnoughChunks(b, TM_num)
    THEN Failure(strategy, "IndexError")
    ELSE LET ex == Exemplars(b, TM_num)
             w  == LearnedWeights(strategy, b.x, ex)
         IN  Success(strategy, ex, w, WeightedSum(ex, w))

MeanSum(ex) ==
    [v \in Vocab |-> QSumSeq([i \in 1..Len(ex) |-> ex[i].probs[v]])]

\* torch.mean(torch.stack(lprobs, dim=3), dim=3)
Mean(ex) ==
    [v \in Vocab |->
        QMul(Q(1, Len(ex)), QSumSeq([i \in 1..Len(ex) |-> ex[i].probs[v]]))]

\* Variant: the last branch runs one pass over the unsplit memory.
MeanEnsembleUnsplit(b, TM_num) ==
    LET e == ExemplarProbs(b.x, MemoryOf(b), PaddingMaskOf(b), CopySeqOf(b))
    IN  Success("mean", <<e>>, << >>, e.probs)

\* The last branch: the unweighted ensemble.
MeanEnsemble(b, TM_num) ==
    IF ~EnoughChunks(b, TM_num)
    THEN Failure("mean", "IndexError")
    ELSE LET ex == Exemplars(b, TM_num)
         IN  Success("mean", ex, << >>, Mean(ex))

\* ----------------------------------------------------------- the dispatch

\* Variant: the learned weighting takes priority over given scores.
BranchCondLearnedFirst(k, c, b) ==
    CASE k = 1 -> ~c.with_TM_ensemble
      [] k = 2 -> /\ c.with_TM_ensemble /\ b.sim.kind # "None"
                  /\ ~c.with_TM_learnable_p
      [] k = 3 -> /\ c.with_TM_ensemble /\ c.with_TM_learnable_p
                  /\ c.with_TM_learnable_p_model = "unscalable_linear"
      [] k = 4 -> /\ c.with_TM_ensemble /\ c.with_TM_learnable_p
                  /\ c.with_TM_learnable_p_model \in {"attention", "attention_large"}
      [] k = 5 -> /\ c.with_TM_ensemble /\ c.with_TM_learnable_p
                  /\ c.with_TM_learnable_p_model \in {"linear", "linear_large"}
      [] k = 6 -> /\ c.with_TM_ensemble /\ c.with_TM_learnable_p
                  /\ c.with_TM_learnable_p_model = "attention_2"
      [] k = 7 -> TRUE

\* Variant: a call without encoder output falls back to the single pass.
BranchCondEncoderFallback(k, c, b) ==
    CASE k = 1 -> ~c.with_TM_ensemble \/ Len(b.encoder_out) = 0
      [] k = 2 -> c.with_TM_ensemble /\ b.sim.kind # "None"
      [] k = 3 -> /\ c.with_TM_ensemble /\ c.with_TM_learnable_p
                  /\ c.with_TM_learnable_p_model = "unscalable_linear"
      [] k = 4 -> /\ c.with_TM_ensemble /\ c.with_TM_learnable_p
                  /\ c.with_TM_learnable_p_model \in {"attention", "attention_large"}
      [] k = 5 -> /\ c.with_TM_ensemble /\ c.with_TM_learnable_p
                  /\ c.with_TM_learnable_p_model \in {"linear", "linear_large"}
      [] k = 6 -> /\ c.with_TM_ensemble /\ c.with_TM_learnable_p
                  /\ c.with_TM_learnable_p_model = "attention_2"
      [] k = 7 -> TRUE

\* The condition of the k-th branch of the if / elif chain of forward.
BranchCond(k, c, b) ==
    CASE k = 1 -> ~c.with_TM_ensemble
      [] k = 2 -> c.with_TM_ensemble /\ b.sim.kind # "None"
      [] k = 3 -> /\ c.with_TM_ensemble /\ c.with_TM_learnable_p
                  /\ c.with_TM_learnable_p_model = "unscalable_linear"
      [] k = 4 -> /\ c.with_TM_ensemble /\ c.with_TM_learnable_p
                  /\ c.with_TM_learnable_p_model \in {"attention", "attention_large"}
      [] k = 5 -> /\ c.with_TM_ensemble /\ c.with_TM_learnable_p
                  /\ c.with_TM_learnable_p_model \in {"linear", "linear_large"}
      [] k = 6 -> /\ c.with_TM_ensemble /\ c.with_TM_learnable_p
                  /\ c.with_TM_learnable_p_model = "attention_2"
      [] k = 7 -> TRUE

ReachedAlways(k, c, b) == TRUE

\* Branch k is tested only when every branch before it was not taken (elif),
\* and every branch body ends in "return".
Reached(k, c, b) == \A j \in 1..(k - 1) : ~BranchCond(j, c, b)

\* The branches whose body runs in one call.
BranchesRun(c, b) ==
    {k \in 1..Len(Strategies) : Reached(k, c, b) /\ BranchCond(k, c, b)}

\* Variant: the first branch splits the memory by TM_num as well.
BranchBodyAlwaysSplit(k, c, b) ==
    CASE k = 1 ->
           IF ~EnoughChunks(b, c.TM_num)
           THEN Failure("no_ensemble", "IndexError")
           ELSE Success("no_ensemble", Exemplars(b, c.TM_num), << >>,
                        Mean(Exemplars(b, c.TM_num)))
      [] k = 2 -> SimilarityWeighted(b, c.TM_num)
      [] k \in 3..6 -> LearnedWeighted(Strategies[k], b, c.TM_num)
      [] k = 7 -> MeanEnsemble(b, c.TM_num)

BranchBody(k, c, b) ==
    CASE k = 1 -> NoEnsemble(b)
      [] k = 2 -> SimilarityWeighted(b, c.TM_num)
      [] k \in 3..6 -> LearnedWeighted(Strategies[k], b, c.TM_num)
      [] k = 7 -> MeanEnsemble(b, c.TM_num)

NoExtra == [attn |-> << >>, inner_states |-> << >>]

\* Variant: the batch dimension of the encoder output is not compared.
extract_featuresUnchecked(b) ==
    [error |-> None, x |-> b.x,
     extra |-> [attn |-> <<b.x + Len(b.encoder_out)>>, inner_states |-> <<b.x>>]]

\* extract_features(prev_output_tokens, encoder_out): the decoder state x and
\* the diagnostics {"attn": [attn], "inner_states": inner_states}, or the
\* assertion on the batch dimension of encoder_out["encoder_out"][0].
extract_features(b) ==
    IF Len(b.encoder_out) > 0 /\ b.encoder_out[1] # b.bsz
    THEN [error |-> "AssertionError", x |-> b.x, extra |-> NoExtra]
    ELSE [error |-> None, x |-> b.x,
          extra |-> [attn |-> <<b.x + Len(b.encoder_out)>>, inner_states |-> <<b.x>>]]

\* forward(prev_output_tokens, encoder_out): the result it returns, or the
\* exception it raises, with the set of strategies whose body ran and the
\* second element of the returned pair.
forward(c, b) ==
    LET f == extract_features(b)
    IN  IF f.error # None
        THEN [result |-> Failure(None, f.error), ran |-> {}, extra |-> NoExtra,
              after |-> b]
        ELSE IF c.with_TM_ensemble /\ b.sim.kind = "NoKey"
        THEN [result |-> Failure(None, "KeyError"), ran |-> {}, extra |-> NoExtra,
              after |-> b]
        ELSE LET run == BranchesRun(c, b)
                 k   == CHOOSE i \in run : \A j \in run : i <= j
                 r   == BranchBody(k, c, b)
             IN  [result |-> r,
                  ran |-> {Strategies[i] : i \in run},
                  extra |-> IF r.status = "ok" THEN f.extra ELSE NoExtra,
                  after |-> InputsAfter(b)]

\* Every block handed to the attention unit holds a position that is not
\* padding, so that its softmax over the key axis is defined.
HasKey(mask) == \E j \in 1..Len(mask) : ~mask[j]

Attendable(c, b) ==
    IF ~c.with_TM_ensemble THEN HasKey(PaddingMaskOf(b))
    ELSE \A i \in 1..Len(TM_num_memory_encoder_padding_masks(b, c.TM_num)) :
            HasKey(TM_num_memory_encoder_padding_masks(b, c.TM_num)[i])

\* ------------------------------------------------------- the future mask

\* torch.zeros([dim, dim])
zeros(dim) == [i \in 1..dim |-> [j \in 1..dim |-> "0"]]

\* utils.fill_with_neg_inf(t)
fill_with_neg_inf(t) == [i \in 1..Len(t) |-> [j \in 1..Len(t[i]) |-> "-inf"]]

\* torch.triu(t, diagonal): the entries below that diagonal are zeroed.
triu(t, diagonal) ==
    [i \in 1..Len(t) |->
        [j \in 1..Len(t[i]) |-> IF j - i >= diagonal THEN t[i][j] ELSE "0"]]

\* self._future_mask = torch.empty(0), on the cpu.
EmptyMask == [mask |-> << >>, device |-> "cpu"]

\* Variant: the cache is rebuilt whenever its size is not the one asked for.
buffered_future_maskExact(cache, dim, device) ==
    LET m == IF Len(cache.mask) # dim \/ cache.device # device
             THEN triu(fill_with_neg_inf(zeros(dim)), 1)
             ELSE cache.mask
    IN  [cache |-> [mask |-> m, device |-> device],
         returned |-> [i \in 1..dim |-> SubSeq(m[i], 1, dim)]]

\* buffered_future_mask(tensor), tensor.size(0) = dim on device: the cache it
\* leaves in self._future_mask and the mask it returns.
buffered_future_mask(cache, dim, device) ==
    LET m == IF \/ Len(cache.mask) = 0
                \/ ~(cache.device = device)
                \/ Len(cache.mask) < dim
             THEN triu(fill_with_neg_inf(zeros(dim)), 1)
             ELSE cache.mask
    IN  [cache |-> [mask |-> m, device |-> device],
         returned |-> [i \in 1..dim |-> SubSeq(m[i], 1, dim)]]

\* The batches of the model hold one target position, on the cpu.
TargetLen(b) == 1

DeviceOf(b) == "cpu"

\* ------------------------------------------------- get_normalized_probs

\* Variant: probabilities are returned when log_probs is False.
get_normalized_probsExp(net_output, log_probs, sample) ==
    IF log_probs THEN net_output[1]
    ELSE [net_output[1] EXCEPT
             !.values = [v \in DOMAIN net_output[1].values |->
                            [exp_log_of |-> net_output[1].values[v].log_of]]]

\* get_normalized_probs(net_output, log_probs, sample):
\* logits = net_output[0]; return logits.contiguous()
get_normalized_probs(net_output, log_probs, sample) == net_output[1]

\* ------------------------------------------------------------ construction

\* config.txt does not exist (os.path.exists(config_file_path) is False).
NoFile == [exists |-> FALSE, lines |-> << >>]

File(lines) == [exists |-> TRUE, lines |-> lines]

\* The default of TM_num.
DefaultTMNum == 5

NumStr == <<"1", "2", "3", "4", "5">>

\* str.lower() on the values the configuration files of the model hold.
Lower(s) ==
    CASE s \in {"true", "True", "TRUE"} -> "true"
      [] s \in {"false", "False", "FALSE"} -> "false"
      [] OTHER -> s

IsInt(s) == \E n \in 1..Len(NumStr) : NumStr[n] = s

\* int(s)
IntOf(s) == CHOOSE n \in 1..Len(NumStr) : NumStr[n] = s

\* Variant: a line that does not split in two is skipped.
RECURSIVE ParseLinesLenient(_, _)
ParseLinesLenient(lines, configs) ==
    IF lines = << >> THEN [error |-> None, configs |-> configs]
    ELSE LET line == Head(lines)
         IN  IF Len(line) # 2 THEN ParseLinesLenient(Tail(lines), configs)
             ELSE ParseLinesLenient(Tail(lines),
                                    [k \in DOMAIN configs \cup {line[1]} |->
                                        IF k = line[1] THEN line[2] ELSE configs[k]])

\* The loop over config_file.readlines(): a line is the list of the fields
\* line.strip().split("=") gives; a blank line is skipped; any other line must
\* unpack into key, value; a later line overrides an earlier one.
RECURSIVE ParseLines(_, _)
ParseLines(lines, configs) ==
    IF lines = << >> THEN [error |-> None, configs |-> configs]
    ELSE LET line == Head(lines)
         IN  IF line = <<"">> THEN ParseLines(Tail(lines), configs)
             ELSE IF Len(line) # 2
                  THEN [error |-> "ValueError", configs |-> configs]
                  ELSE ParseLines(Tail(lines),
                                  [k \in DOMAIN configs \cup {line[1]} |->
                                      IF k = line[1] THEN line[2] ELSE configs[k]])

EmptyDict == [k \in {} |-> ""]

ReadConfig(f) ==
    IF ~f.exists THEN [error |-> None, configs |-> EmptyDict]
    ELSE ParseLines(f.lines, EmptyDict)

IsBool(s) == Lower(s) = "true" \/ Lower(s) = "false"

\* Variant: a missing TM_num means one exemplar.
AttributesSingleDefault(configs) ==
    [with_TM_ensemble |->
        IF "with_TM_ensemble" \in DOMAIN configs
        THEN Lower(configs["with_TM_ensemble"]) = "true" ELSE FALSE,
     TM_num |->
        IF "TM_num" \in DOMAIN configs THEN IntOf(configs["TM_num"]) ELSE 1,
     with_TM_learnable_p |->
        IF "with_TM_learnable_p" \in DOMAIN configs
        THEN Lower(configs["with_TM_learnable_p"]) = "true" ELSE FALSE,
     with_TM_learnable_p_model |->
        IF "with_TM_learnable_p_model" \in DOMAIN configs
        THEN configs["with_TM_learnable_p_model"] ELSE None]

\* The four attributes __init__ sets from self.configs.
Attributes(configs) ==
    [with_TM_ensemble |->
        IF "with_TM_ensemble" \in DOMAIN configs
        THEN Lower(configs["with_TM_ensemble"]) = "true" ELSE FALSE,
     TM_num |->
        IF "TM_num" \in DOMAIN configs THEN IntOf(configs["TM_num"])
        ELSE DefaultTMNum,
     with_TM_learnable_p |->
        IF "with_TM_learnable_p" \in DOMAIN configs
        THEN Lower(configs["with_TM_learnable_p"]) = "true" ELSE FALSE,
     with_TM_learnable_p_model |->
        IF "with_TM_learnable_p_model" \in DOMAIN configs
        THEN configs["with_TM_learnable_p_model"] ELSE None]

\* Variant: the model name is not asserted.
AttributeErrorUnnamed(configs) ==
    IF /\ "with_TM_ensemble" \in DOMAIN configs
       /\ ~IsBool(configs["with_TM_ensemble"])
    THEN "AssertionError"
    ELSE IF "TM_num" \in DOMAIN configs /\ ~IsInt(configs["TM_num"])
    THEN "ValueError"
    ELSE IF /\ "with_TM_learnable_p" \in DOMAIN configs
            /\ ~IsBool(configs["with_TM_learnable_p"])
    THEN "AssertionError"
    ELSE None

\* Variant: a model name that is not one of the six is rejected.
AttributeErrorStrictName(configs) ==
    IF /\ "with_TM_ensemble" \in DOMAIN configs
       /\ ~IsBool(configs["with_TM_ensemble"])
    THEN "AssertionError"
    ELSE IF "TM_num" \in DOMAIN configs /\ ~IsInt(configs["TM_num"])
    THEN "ValueError"
    ELSE IF /\ "with_TM_learnable_p" \in DOMAIN configs
            /\ ~IsBool(configs["with_TM_learnable_p"])
    THEN "AssertionError"
    ELSE IF LET a == Attributes(configs)
            IN  /\ a.with_TM_ensemble /\ a.with_TM_learnable_p
                /\ a.with_TM_learnable_p_model \notin
                      {"unscalable_linear", "attention", "linear",
                       "attention_large", "linear_large", "attention_2"}
    THEN "AssertionError"
    ELSE None

\* The exception __init__ raises on self.configs, or None.
AttributeError(configs) ==
    IF /\ "with_TM_ensemble" \in DOMAIN configs
       /\ ~IsBool(configs["with_TM_ensemble"])
    THEN "AssertionError"
    ELSE IF "TM_num" \in DOMAIN configs /\ ~IsInt(configs["TM_num"])
    THEN "ValueError"
    ELSE IF /\ "with_TM_learnable_p" \in DOMAIN configs
            /\ ~IsBool(configs["with_TM_learnable_p"])
    THEN "AssertionError"
    ELSE IF LET a == Attributes(configs)
            IN  /\ a.with_TM_ensemble /\ a.with_TM_learnable_p
                /\ a.with_TM_learnable_p_model = None
    THEN "AssertionError"
    ELSE None

\* Variant: learnable_p_fc1 of unscalable_linear is sized for the default TM_num.
LearnableParamsDefaultWidth(a) ==
    IF ~(a.with_TM_ensemble /\ a.with_TM_learnable_p) THEN {}
    ELSE CASE a.with_TM_learnable_p_model = "unscalable_linear" ->
                {[name |-> "learnable_p_fc1", width |-> DefaultTMNum + 1],
                 [name |-> "learnable_p_fc2", width |-> 4]}
           [] a.with_TM_learnable_p_model \in {"attention", "attention_large"} ->
                {[name |-> "learnable_p_attn", width |-> 1]}
           [] a.with_TM_learnable_p_model = "linear" ->
                {[name |-> "learnable_p_fc1", width |-> 2],
                 [name |-> "learnable_p_fc2", width |-> 4]}
           [] a.with_TM_learnable_p_model = "linear_large" ->
                {[name |-> "learnable_p_fc1", width |-> 2],
                 [name |-> "learnable_p_fc2", width |-> 12]}
           [] a.with_TM_learnable_p_model = "attention_2" ->
                {[name |-> "learnable_p_attn", width |-> 1],
                 [name |-> "learnable_p_fc1", width |-> 3],
                 [name |-> "learnable_p_fc2", width |-> 4]}
           [] OTHER -> {}

\* The learnable_p parameters __init__ builds: name and input width in units
\* of embed_dim.
LearnableParams(a) ==
    IF ~(a.with_TM_ensemble /\ a.with_TM_learnable_p) THEN {}
    ELSE CASE a.with_TM_learnable_p_model = "unscalable_linear" ->
                {[name |-> "learnable_p_fc1", width |-> a.TM_num + 1],
                 [name |-> "learnable_p_fc2", width |-> 4]}
           [] a.with_TM_learnable_p_model \in {"attention", "attention_large"} ->
                {[name |-> "learnable_p_attn", width |-> 1]}
           [] a.with_TM_learnable_p_model = "linear" ->
                {[name |-> "learnable_p_fc1", width |-> 2],
                 [name |-> "learnable_p_fc2", width |-> 4]}
           [] a.with_TM_learnable_p_model = "linear_large" ->
                {[name |-> "learnable_p_fc1", width |-> 2],
                 [name |-> "learnable_p_fc2", width |-> 12]}
           [] a.with_TM_learnable_p_model = "attention_2" ->
                {[name |-> "learnable_p_attn", width |-> 1],
                 [name |-> "learnable_p_fc1", width |-> 3],
                 [name |-> "learnable_p_fc2", width |-> 4]}
           [] OTHER -> {}

\* The learnable_p parameters the branch of a learned weighting applies, each
\* with the width (in units of embed_dim) of the tensor the branch feeds it;
\* learnable_p_fc2 is fed what learnable_p_fc1 puts out (width 0: any).
ParamsUsed(strategy, TM_num) ==
    CASE strategy = "unscalable_linear" ->
            {[name |-> "learnable_p_fc1", width |-> 1 + TM_num],
             [name |-> "learnable_p_fc2", width |-> 0]}
      [] strategy = "attention" ->
            {[name |-> "learnable_p_attn", width |-> 1]}
      [] strategy = "linear" ->
            {[name |-> "learnable_p_fc1", width |-> 2],
             [name |-> "learnable_p_fc2", width |-> 0]}
      [] strategy = "attention_2" ->
            {[name |-> "learnable_p_attn", width |-> 1],
             [name |-> "learnable_p_fc1", width |-> 3],
             [name |-> "learnable_p_fc2", width |-> 0]}
      [] OTHER -> {}

NoCfg ==
    [with_TM_ensemble |-> FALSE, TM_num |-> 0, with_TM_learnable_p |-> FALSE,
     with_TM_learnable_p_model |-> None]

NoBatch == [x |-> 0, memory |-> << >>, sim |-> SimNone, bsz |-> 1, encoder_out |-> << >>]

NoOut ==
    [result |-> Failure(None, "not called"), ran |-> {}, extra |-> NoExtra,
     after |-> NoBatch]

NoMaskCall ==
    [before |-> EmptyMask, dim |-> 0, device |-> "cpu", returned |-> << >>]

NoNormalized ==
    [called |-> FALSE, log_probs |-> FALSE, sample |-> None,
     value |-> [values |-> << >>, axes |-> << >>]]

\* __init__ on the configuration file: the attributes and parameters are set,
\* or the exception leaves no decoder.
Construct(f) ==
    /\ pc = "new"
    /\ LET r == ReadConfig(f)
           e == IF r.error # None THEN r.error ELSE AttributeError(r.configs)
       IN  IF e # None
           THEN /\ pc' = e
                /\ UNCHANGED <<cfg, params>>
           ELSE /\ pc' = "built"
                /\ cfg' = Attributes(r.configs)
                /\ params' = LearnableParams(Attributes(r.configs))
    /\ file' = f
    /\ UNCHANGED <<batch, out, prev, future_mask, mask_call, normalized>>

\* One forward call of the constructed decoder on batch b.
Forward(b) ==
    /\ pc = "built"
    /\ Attendable(cfg, b)
    /\ batch' = b
    /\ out' = forward(cfg, b)
    /\ prev' = [kind |-> batch.sim.kind, ran |-> out.ran]
    /\ IF extract_features(b).error # None
       THEN UNCHANGED <<future_mask, mask_call>>
       ELSE LET r == buffered_future_mask(future_mask, TargetLen(b), DeviceOf(b))
            IN  /\ future_mask' = r.cache
                /\ mask_call' = [before |-> future_mask, dim |-> TargetLen(b),
                                 device |-> DeviceOf(b), returned |-> r.returned]
    /\ UNCHANGED <<pc, cfg, params, file, normalized>>

\* One call of buffered_future_mask with a tensor of dim positions on device.
BufferedFutureMask(dim, device) ==
    /\ pc = "built"
    /\ LET r == buffered_future_mask(future_mask, dim, device)
       IN  /\ future_mask' = r.cache
           /\ mask_call' = [before |-> future_mask, dim |-> dim,
                            device |-> device, returned |-> r.returned]
    /\ UNCHANGED <<pc, cfg, params, batch, out, prev, file, normalized>>

\* The pair forward returned: the log-probabilities and extra.
NetOutput == <<[values |-> out.result.lprobs, axes |-> out.result.axes], out.extra>>

\* One call of get_normalized_probs on what the last forward call returned.
GetNormalizedProbs(log_probs, sample) ==
    /\ pc = "built"
    /\ out.result.status = "ok"
    /\ normalized' = [called |-> TRUE, log_probs |-> log_probs, sample |-> sample,
                      value |-> get_normalized_probs(NetOutput, log_probs, sample)]
    /\ UNCHANGED <<pc, cfg, params, batch, out, prev, file, future_mask, mask_call>>

Init ==
    /\ pc = "new"
    /\ cfg = NoCfg
    /\ params = {}
    /\ batch = NoBatch
    /\ out = NoOut
    /\ prev = [kind |-> "None", ran |-> {}]
    /\ file = NoFile
    /\ future_mask = EmptyMask
    /\ mask_call = NoMaskCall
    /\ normalized = NoNormalized

\* ------------------------------------------------- the inputs of the model

Absent == "<absent>"

ModelNames ==
    {"unscalable_linear", "attention", "linear", "attention_large",
     "linear_large", "attention_2"}

\* The lines of a configuration file that sets the keys whose value is given.
Line(key, value) == IF value = Absent THEN << >> ELSE << <<key, value>> >>

FileOf(e, n, l, m) ==
    File(Line("with_TM_ensemble", e) \o Line("TM_num", n)
         \o Line("with_TM_learnable_p", l) \o Line("with_TM_learnable_p_model", m))

TMNumValues == {NumStr[i] : i \in 1..MaxTMNum}

\* Files with a line that does not split on "=" into a key and a value: no
\* "=", two "=", alone or after a good line.
MalformedFiles ==
    {File(<< <<"with_TM_ensemble">> >>),
     File(<< <<"TM_num", "2", "3">> >>),
     File(<< <<"with_TM_ensemble", "true">>, <<"TM_num", "2">>,
             <<"with_TM_learnable_p">> >>),
     File(<< <<"">>, <<"TM_num", "2", "">> >>)}

\* Files whose lines all split in two: blank lines, values in another case,
\* values that are no boolean or no integer, a key given twice, and a key
\* written with a space before the "=".
UnusualFiles ==
    {File(<< <<"">>, <<"with_TM_ensemble", "True">>, <<"">>, <<"TM_num", "2">> >>),
     File(<< <<"with_TM_ensemble", "TRUE">>, <<"with_TM_learnable_p", "False">> >>),
     File(<< <<"with_TM_ensemble", "FALSE">>, <<"TM_num", "1">> >>),
     File(<< <<"with_TM_ensemble", "yes">> >>),
     File(<< <<"with_TM_ensemble", "true">>, <<"with_TM_learnable_p", "1">> >>),
     File(<< <<"with_TM_learnable_p", "">> >>),
     File(<< <<"TM_num", "two">> >>),
     File(<< <<"with_TM_ensemble", "false">>, <<"with_TM_ensemble", "true">>,
             <<"TM_num", "2">> >>),
     File(<< <<"with_TM_ensemble ", " true">> >>)}

\* Every combination of the four keys, each one possibly missing, no file,
\* and the malformed and unusual files.
ConfigFiles ==
    {NoFile} \cup
    {FileOf(e, n, l, m) :
        e \in {Absent, "true", "false"}, n \in {Absent} \cup TMNumValues,
        l \in {Absent, "true", "false"},
        m \in {Absent, "other"} \cup ModelNames}
    \cup MalformedFiles \cup UnusualFiles

\* One file per strategy and TM_num.
FusionConfigFiles ==
    {FileOf(e, n, "false", Absent) : e \in {"true", "false"}, n \in TMNumValues}
    \cup
    {FileOf("true", n, "true", m) :
        n \in TMNumValues,
        m \in {"unscalable_linear", "attention", "linear", "attention_2"}}

\* A memory position: the id it copies, its padding flag, and its encoding.
Position(tok, pad) == [tok |-> tok, pad |-> pad, enc |-> tok]

RECURSIVE SeqsOf(_, _)
SeqsOf(S, n) ==
    IF n = 0 THEN {<< >>}
    ELSE {<<e>> \o t : e \in S, t \in SeqsOf(S, n - 1)}

Memories(S, lens) == UNION {SeqsOf(S, n) : n \in lens}

SimVals == {Q(3, 10), Q(7, 10), Q(1, 1)}

\* A score below zero (the scores are used as the encoder hands them over).
NegativeSimVals == {Q(0 - 1, 2)}

\* Score rows: any first score, 3/10 in the other slots.
FusionSimRows ==
    {[i \in 1..MaxTMNum |-> IF i = 1 THEN a ELSE Q(3, 10)] :
        a \in SimVals \cup NegativeSimVals}

SimRows == {[i \in 1..MaxTMNum |-> IF i = 1 THEN a ELSE Q(3, 10)] : a \in SimVals}

\* Batches of the life-cycle specification: short unpadded memories, every
\* kind of similarity entry, and an encoder output that is empty, of the
\* batch size of prev_output_tokens, or of another batch size.
Batches ==
    [x : {0},
     memory : Memories({Position(0, FALSE)}, 2..2),
     sim : {SimMissing, SimNone}
           \cup {SimTensor(r) : r \in {q \in SimRows : q[1] = Q(7, 10)}},
     bsz : {1},
     encoder_out : {<< >>, <<1>>, <<2>>}]

\* Batches of the fusion specification: every memory up to MaxLen positions.
FusionBatches ==
    [x : XVals,
     memory : Memories({Position(t, p) : t \in Vocab, p \in BOOLEAN}, 1..MaxLen),
     sim : {SimNone} \cup {SimTensor(r) : r \in FusionSimRows},
     bsz : {1},
     encoder_out : {<<1>>}]

Build == \E f \in ConfigFiles : Construct(f)

Call == \E b \in Batches : Forward(b)

Next == Build \/ Call

\* The decoder's life cycle: construction from any configuration file, then
\* any number of forward calls.
Spec == Init /\ [][Next]_vars

FusionBuild == \E f \in FusionConfigFiles : Construct(f)

FusionCall == out = NoOut /\ \E b \in FusionBatches : Forward(b)

FusionNext == FusionBuild \/ FusionCall

\* The fusion arithmetic: a decoder of each strategy, and its first forward
\* call on each batch.
FusionSpec == Init /\ [][FusionNext]_vars

\* The helpers of the decoder: a decoder, forward calls, and any sequence of
\* buffered_future_mask and get_normalized_probs calls.
HelperConfigFiles == {NoFile, FileOf("true", "2", "false", Absent)}

HelperBatches ==
    [x : XVals,
     memory : Memories({Position(0, FALSE)}, 2..2),
     sim : {SimNone},
     bsz : {1},
     encoder_out : {<<1>>}]

HelperBuild == \E f \in HelperConfigFiles : Construct(f)

HelperCall == out = NoOut /\ \E b \in HelperBatches : Forward(b)

HelperMask == \E dim \in 1..MaxDim, device \in Devices : BufferedFutureMask(dim, device)

HelperNormalize ==
    \E log_probs \in BOOLEAN, sample \in {None, "sample"} :
        GetNormalizedProbs(log_probs, sample)

HelperNext == HelperBuild \/ HelperCall \/ HelperMask \/ HelperNormalize

HelperSpec == Init /\ [][HelperNext]_vars

\* ------------------------------------------------------------- properties

Called == pc = "built" /\ out # NoOut

\* The last call got past extract_features, to the if / elif chain.
Dispatched == Called /\ extract_features(batch).error = None

\* C1: in a forward call that reaches the if / elif chain, whenever
\* with_TM_ensemble is true and
\* encoder_out["TMs_similarity"][0] is not None, the similarity-weighted
\* strategy is the one that runs, whatever with_TM_learnable_p and
\* with_TM_learnable_p_model are.
C1_SimilarityOverridesLearned ==
    (Dispatched /\ cfg.with_TM_ensemble /\ batch.sim.kind = "Tensor")
        => /\ out.ran = {"similarity"}
           /\ out.result.strategy = "similarity"

C1_Witness ==
    /\ Called /\ cfg.with_TM_ensemble /\ cfg.with_TM_learnable_p
    /\ cfg.with_TM_learnable_p_model = "linear"
    /\ batch.sim.kind = "Tensor"
    /\ out.result.strategy = "similarity" /\ out.result.status = "ok"

\* C2 as stated: any two forward calls on the same decoder execute the same
\* strategy, whatever each batch's encoder_out contains.
C2_SameStrategyEveryCall ==
    (Called /\ prev.ran # {} /\ out.ran # {}) => out.ran = prev.ran

\* C2, amended: two successive forward calls on the same decoder whose batches
\* agree on whether encoder_out["TMs_similarity"][0] is None execute the same
\* strategy; the flags alone do not fix it.
C2_SameStrategyGivenSimilarityEntry ==
    (Called /\ prev.ran # {} /\ out.ran # {} /\ prev.kind = batch.sim.kind)
        => out.ran = prev.ran

C2_Witness ==
    /\ Called /\ cfg.with_TM_ensemble /\ cfg.with_TM_learnable_p
    /\ prev.kind = "None" /\ batch.sim.kind = "None"
    /\ prev.ran = {"attention_2"} /\ out.ran = {"attention_2"}
    /\ out.result.status = "ok"

\* C3: for every combination of the three flags and of similarity scores
\* given or None, one call that reaches the if / elif chain runs exactly one
\* strategy; with with_TM_ensemble
\* and with_TM_learnable_p true and no scores, the model name selects it:
\* unscalable_linear the concatenated-attention MLP, attention and
\* attention_large the attention-pooled one, linear and linear_large the
\* pairwise MLP, attention_2 the hybrid.
C3_ExactlyOneStrategy ==
    (Dispatched /\ batch.sim.kind # "NoKey")
        => /\ Cardinality(out.ran) = 1
           /\ out.ran = {out.result.strategy}
           /\ (cfg.with_TM_ensemble /\ cfg.with_TM_learnable_p
                   /\ batch.sim.kind = "None")
                => LET m == cfg.with_TM_learnable_p_model
                   IN  /\ m = "unscalable_linear" => out.ran = {"unscalable_linear"}
                       /\ m \in {"attention", "attention_large"} => out.ran = {"attention"}
                       /\ m \in {"linear", "linear_large"} => out.ran = {"linear"}
                       /\ m = "attention_2" => out.ran = {"attention_2"}

C3_Witness ==
    /\ Called /\ cfg.with_TM_ensemble /\ cfg.with_TM_learnable_p
    /\ cfg.with_TM_learnable_p_model = "attention_large"
    /\ batch.sim.kind = "None"
    /\ out.ran = {"attention"} /\ out.result.status = "ok"

\* The exemplars of the last call and the packed positions each one covers:
\* the whole memory in the single pass, else consecutive blocks of
\* ceil(len / TM_num) positions.
BlockSize ==
    IF cfg.with_TM_ensemble
    THEN (Len(batch.memory) + cfg.TM_num - 1) \div cfg.TM_num
    ELSE Len(batch.memory)

Block(i) ==
    SubSeq(batch.memory, (i - 1) * BlockSize + 1,
           Min(i * BlockSize, Len(batch.memory)))

Ok == Called /\ out.result.status = "ok"

Learned == {"unscalable_linear", "attention", "linear", "attention_2"}

\* C4: with with_TM_ensemble = false the probability vector before the log
\* sums to 1 over the vocabulary: gen_gate + copy_gate = 1, the vocabulary
\* softmax sums to 1, the alignment weights sum to 1, and the scatter-add
\* loses no copy mass.
C4_NoEnsembleSumsToOne ==
    (Ok /\ ~cfg.with_TM_ensemble)
        => LET e == out.result.exemplars[1]
           IN  /\ QAdd(e.gen_gate, e.copy_gate) = QOne
               /\ QSumOver(e.softmax, Vocab) = QOne
               /\ QSumSeq(e.alignment_weight) = QOne
               /\ QSumOver(out.result.probs, Vocab) = QOne

C4_Witness ==
    /\ Ok /\ ~cfg.with_TM_ensemble /\ Len(batch.memory) = MaxLen
    /\ \E j \in 1..Len(batch.memory) : batch.memory[j].pad
    /\ \E j, k \in 1..Len(batch.memory) :
          /\ j # k /\ ~batch.memory[j].pad /\ ~batch.memory[k].pad
          /\ batch.memory[j].tok = batch.memory[k].tok
    /\ QSumOver(out.result.probs, Vocab) = QOne

\* C5: in each learned-weighting strategy the ensemble weights that multiply
\* the per-exemplar probabilities are non-negative and sum to 1 over the
\* TM_num exemplars.
C5_LearnedWeightsSumToOne ==
    (Ok /\ out.result.strategy \in Learned)
        => /\ Len(out.result.weights) = cfg.TM_num
           /\ \A i \in 1..cfg.TM_num :
                 out.result.weights[i].n >= 0 /\ out.result.weights[i].d > 0
           /\ QSumSeq(out.result.weights) = QOne

C5_Witness ==
    /\ Ok /\ out.result.strategy = "attention_2" /\ cfg.TM_num = MaxTMNum
    /\ \E i, k \in 1..cfg.TM_num : out.result.weights[i] # out.result.weights[k]
    /\ QSumSeq(out.result.weights) = QOne

\* C6: in the similarity-weighted strategy the output is
\* log(sum_i s_i * p_i + 1e-12), p_i being exemplar i's own generate + copy
\* probabilities and s_i its raw score, not renormalized.
C6_SimilarityWeightedSum ==
    (Ok /\ out.result.strategy = "similarity")
        => \A v \in Vocab :
              out.result.lprobs[v] =
                 [log_of |->
                    [q |-> QSumSeq([i \in 1..cfg.TM_num |->
                               QMul(batch.sim.scores[i],
                                    ExemplarProbs(batch.x,
                                        [j \in 1..Len(Block(i)) |-> Block(i)[j].enc],
                                        [j \in 1..Len(Block(i)) |-> Block(i)[j].pad],
                                        [j \in 1..Len(Block(i)) |-> Block(i)[j].tok]
                                    ).probs[v])]),
                     eps |-> 1]]

C6_Witness ==
    /\ Ok /\ out.result.strategy = "similarity" /\ cfg.TM_num = 2
    /\ Len(batch.memory) = 4
    /\ batch.sim.scores[1] = Q(7, 10) /\ batch.sim.scores[2] = Q(3, 10)
    /\ out.result.exemplars[1].probs # out.result.exemplars[2].probs

\* C7: with TM_num = 1, on the same input, the similarity-weighted
\* probabilities before the log are the unweighted ensemble's times the one
\* similarity score, and with a score of 1 both equal the single pass's.
C7_OneExemplarEquivalence ==
    (Ok /\ out.result.strategy = "similarity" /\ cfg.TM_num = 1)
        => LET s == batch.sim.scores[1]
               mean == forward([cfg EXCEPT !.with_TM_learnable_p = FALSE],
                               [batch EXCEPT !.sim = SimNone]).result
               single == forward([cfg EXCEPT !.with_TM_ensemble = FALSE],
                                 batch).result
           IN  /\ mean.strategy = "mean" /\ single.strategy = "no_ensemble"
               /\ \A v \in Vocab : out.result.probs[v] = QMul(s, mean.probs[v])
               /\ s = QOne => /\ out.result.probs = single.probs
                              /\ mean.probs = single.probs

C7_Witness ==
    /\ Ok /\ out.result.strategy = "similarity" /\ cfg.TM_num = 1
    /\ batch.sim.scores[1] = QOne
    /\ \E j \in 1..Len(batch.memory) : batch.memory[j].pad
    /\ out.result.probs = NoEnsemble(batch).probs

\* C8: for every exemplar, every position the padding mask marks gets an
\* alignment weight of exactly zero, and so adds no copy mass, whatever its
\* raw attention score.
C8_PaddingGetsZeroWeight ==
    Ok => \A i \in 1..Len(out.result.exemplars) :
             \A j \in 1..Len(Block(i)) :
                Block(i)[j].pad
                   => /\ out.result.exemplars[i].alignment_weight[j] = QZero
                      /\ QMul(out.result.exemplars[i].copy_gate,
                              out.result.exemplars[i].alignment_weight[j]) = QZero

C8_Witness ==
    /\ Ok /\ cfg.with_TM_ensemble /\ cfg.TM_num = 2 /\ Len(batch.memory) = 4
    /\ Block(2)[1].pad /\ ~Block(2)[2].pad /\ ~Block(1)[1].pad
    /\ out.result.exemplars[2].alignment_weight[1] = QZero
    /\ out.result.exemplars[1].alignment_weight[1] # QZero

\* C9: after the scatter, an exemplar's probability at vocabulary id v is
\* gen_gate * softmax[v] plus the sum of copy_gate * alignment_weight[j] over
\* all its positions j whose token id is v.
C9_ScatterAccumulates ==
    Ok => \A i \in 1..Len(out.result.exemplars) :
             LET e == out.result.exemplars[i]
             IN  \A v \in Vocab :
                    e.probs[v] =
                       QAdd(QMul(e.gen_gate, e.softmax[v]),
                            QSumOver([j \in 1..Len(Block(i)) |->
                                         QMul(e.copy_gate, e.alignment_weight[j])],
                                     {j \in 1..Len(Block(i)) : Block(i)[j].tok = v}))

C9_Witness ==
    /\ Ok /\ cfg.with_TM_ensemble /\ cfg.TM_num = 2 /\ Len(batch.memory) = 4
    /\ Block(1)[1].tok = Block(1)[2].tok
    /\ ~Block(1)[1].pad /\ ~Block(1)[2].pad
    /\ out.result.exemplars[1].probs[Block(1)[1].tok]
          = QAdd(QMul(out.result.exemplars[1].gen_gate,
                      out.result.exemplars[1].softmax[Block(1)[1].tok]),
                 out.result.exemplars[1].copy_gate)

\* C10: the scatter of the copy mass does not depend on the order of the
\* positions: permuting an exemplar's token ids and its alignment weights the
\* same way gives the same probabilities.
C10_ScatterOrderIndependent ==
    Ok => \A i \in 1..Len(out.result.exemplars) :
             LET e == out.result.exemplars[i]
                 n == Len(Block(i))
                 gen == [v \in Vocab |-> QMul(e.gen_gate, e.softmax[v])]
             IN  \A f \in Permutations(1..n) :
                    CopyMass(gen,
                             [j \in 1..n |-> Block(i)[f[j]].tok],
                             CopyProbs(e.copy_gate,
                                       [j \in 1..n |-> e.alignment_weight[f[j]]]))
                       = e.probs

C10_Witness ==
    /\ Ok /\ out.result.strategy = "similarity" /\ Len(Block(1)) >= 2
    /\ Block(1)[1].tok = Block(1)[2].tok
    /\ out.result.exemplars[1].alignment_weight[1]
          # out.result.exemplars[1].alignment_weight[2]

\* Per vocabulary id, the sum and the arithmetic mean of the probabilities of
\* the exemplars of the last call.
ExemplarSum(v) ==
    QSumSeq([i \in 1..Len(out.result.exemplars) |-> out.result.exemplars[i].probs[v]])

ExemplarMean(v) == QMul(Q(1, Len(out.result.exemplars)), ExemplarSum(v))

\* The exemplar that block i of the last call's memory gives.
BlockExemplar(i) ==
    ExemplarProbs(batch.x,
                  [j \in 1..Len(Block(i)) |-> Block(i)[j].enc],
                  [j \in 1..Len(Block(i)) |-> Block(i)[j].pad],
                  [j \in 1..Len(Block(i)) |-> Block(i)[j].tok])

\* C11 as stated: the strategy that averages the exemplars' probabilities is
\* the one with_TM_ensemble = false triggers, and no other strategy uses a
\* mean: no call with with_TM_ensemble = true returns the arithmetic mean of
\* several exemplars.
C11_MeanOnlyWithoutEnsemble ==
    (Ok /\ cfg.with_TM_ensemble /\ Len(out.result.exemplars) >= 2
        /\ out.result.strategy \notin Learned \cup {"similarity"})
        => \E v \in Vocab : out.result.probs[v] # ExemplarMean(v)

\* C11, amended: the arithmetic mean over the TM_num exemplars is taken by the
\* unweighted ensemble (with_TM_ensemble = true, no similarity scores, no
\* learned weighting selected); with with_TM_ensemble = false there is one
\* pass over the whole memory and nothing is averaged.
C11_MeanIsUnweightedEnsemble ==
    Ok => /\ out.result.strategy = "mean"
             => /\ cfg.with_TM_ensemble /\ batch.sim.kind = "None"
                /\ Len(out.result.exemplars) = cfg.TM_num
                /\ \A i \in 1..cfg.TM_num : out.result.exemplars[i] = BlockExemplar(i)
                /\ \A v \in Vocab : out.result.probs[v] = ExemplarMean(v)
          /\ ~cfg.with_TM_ensemble
             => /\ out.result.strategy = "no_ensemble"
                /\ out.result.exemplars = <<BlockExemplar(1)>>
                /\ Len(Block(1)) = Len(batch.memory)
                /\ out.result.probs = out.result.exemplars[1].probs

C11_Witness ==
    /\ Ok /\ out.result.strategy = "mean" /\ cfg.TM_num = 2
    /\ Len(batch.memory) = 4
    /\ out.result.exemplars[1].probs # out.result.exemplars[2].probs
    /\ \A v \in Vocab : /\ out.result.probs[v] = ExemplarMean(v)
                         /\ out.result.probs[v] # ExemplarSum(v)

\* C12: every strategy returns the pair (log-probabilities, extra): the first
\* with the axes (batch, target positions, vocabulary), the second the
\* diagnostics extract_features returned, unmodified.
C12_OutputShapeAndExtra ==
    Ok => /\ out.result.axes = <<"B", "T", "V">>
          /\ DOMAIN out.result.lprobs = Vocab
          /\ out.extra = extract_features(batch).extra

C12_Witness ==
    /\ Ok /\ out.result.strategy = "mean" /\ batch.x = 1
    /\ out.result.axes = <<"B", "T", "V">>
    /\ out.extra = [attn |-> <<2>>, inner_states |-> <<1>>]

\* C13 as stated: with with_TM_ensemble = true, a packed exemplar sequence
\* whose length TM_num does not divide makes forward fail instead of
\* returning a result.
C13_NonDivisibleLengthFails ==
    (Called /\ cfg.with_TM_ensemble /\ Len(batch.memory) % cfg.TM_num # 0)
        => out.result.status # "ok"

\* C14: when encoder_out["encoder_out"] is not empty and its batch dimension
\* differs from that of prev_output_tokens, the call ends in the assertion
\* error of extract_features, before any strategy, attention or gate ran.
C14_BatchMismatchAsserts ==
    (Called /\ Len(batch.encoder_out) > 0 /\ batch.encoder_out[1] # batch.bsz)
        => /\ out.result.status = "AssertionError"
           /\ out.ran = {}
           /\ out.result.exemplars = << >>
           /\ out.result.lprobs = << >>

C14_Witness ==
    /\ Called /\ cfg.with_TM_ensemble /\ batch.sim.kind = "NoKey"
    /\ batch.bsz = 1 /\ batch.encoder_out = <<2>>
    /\ out.result.status = "AssertionError" /\ out.ran = {}

FileSets(key) ==
    file.exists /\ \E i \in 1..Len(file.lines) :
                      Len(file.lines[i]) = 2 /\ file.lines[i][1] = key

FileSetsTrue(key) ==
    file.exists /\ \E i \in 1..Len(file.lines) :
                      /\ Len(file.lines[i]) = 2
                      /\ file.lines[i][1] = key /\ file.lines[i][2] = "true"

\* C16 as stated: construction fails whenever with_TM_learnable_p = true is
\* configured with no with_TM_learnable_p_model, for either value of
\* with_TM_ensemble.
C16_FailsForEitherEnsembleValue ==
    (pc # "new" /\ FileSetsTrue("with_TM_learnable_p")
        /\ ~FileSets("with_TM_learnable_p_model"))
        => pc # "built"

\* C16, amended: construction fails with an assertion error when
\* with_TM_ensemble = true and with_TM_learnable_p = true are configured with
\* no model name; with with_TM_ensemble false or missing the same file builds
\* a decoder, whose forward calls run the single pass.
C16_FailsWhenEnsembleAndLearnable ==
    (pc # "new" /\ FileSetsTrue("with_TM_learnable_p")
        /\ ~FileSets("with_TM_learnable_p_model"))
        => IF FileSetsTrue("with_TM_ensemble")
           THEN pc = "AssertionError"
           ELSE /\ pc = "built"
                /\ Dispatched => out.ran = {"no_ensemble"} /\ out.result.status = "ok"

C16_Witness ==
    /\ pc = "AssertionError"
    /\ file = FileOf("true", "2", "true", Absent)

\* C17: with no configuration file construction succeeds with
\* with_TM_ensemble = false, TM_num = 5, with_TM_learnable_p = false and
\* with_TM_learnable_p_model = None; with a file, each key the file does not
\* set takes that default, whatever the other keys are.
C17_Defaults ==
    /\ (pc # "new" /\ ~file.exists)
          => /\ pc = "built"
             /\ cfg = [with_TM_ensemble |-> FALSE, TM_num |-> 5,
                        with_TM_learnable_p |-> FALSE,
                        with_TM_learnable_p_model |-> "<None>"]
    /\ pc = "built"
          => /\ ~FileSets("with_TM_ensemble") => cfg.with_TM_ensemble = FALSE
             /\ ~FileSets("TM_num") => cfg.TM_num = 5
             /\ ~FileSets("with_TM_learnable_p") => cfg.with_TM_learnable_p = FALSE
             /\ ~FileSets("with_TM_learnable_p_model")
                   => cfg.with_TM_learnable_p_model = "<None>"

C17_Witness ==
    /\ pc = "built" /\ file = FileOf("true", Absent, "true", "linear")
    /\ cfg.TM_num = 5 /\ cfg.with_TM_ensemble /\ cfg.with_TM_learnable_p

\* C18 as stated: with with_TM_ensemble = true and an encoder_out that has no
\* TMs_similarity entry, forward does not fail and runs the learned or the
\* unweighted strategy the flags select.
C18_SimilarityKeyOptional ==
    (Dispatched /\ cfg.with_TM_ensemble /\ batch.sim.kind = "NoKey"
        /\ Len(batch.memory) % cfg.TM_num = 0)
        => /\ out.result.status = "ok"
           /\ out.result.strategy \in Learned \cup {"mean"}

\* C19: in every strategy, for every exemplar, gen_gate and copy_gate are
\* both non-negative and gen_gate + copy_gate = 1.
C19_GateIsTwoWaySoftmax ==
    Ok => \A i \in 1..Len(out.result.exemplars) :
             LET e == out.result.exemplars[i]
             IN  /\ e.gen_gate.n >= 0 /\ e.gen_gate.d > 0
                 /\ e.copy_gate.n >= 0 /\ e.copy_gate.d > 0
                 /\ QAdd(e.gen_gate, e.copy_gate) = QOne

C19_Witness ==
    /\ Ok /\ out.result.strategy = "linear" /\ cfg.TM_num = 2
    /\ out.result.exemplars[1].gen_gate # out.result.exemplars[2].gen_gate
    /\ QAdd(out.result.exemplars[2].gen_gate, out.result.exemplars[2].copy_gate) = QOne

\* The argument q + eps * 1e-12 of a logarithm is strictly positive (every
\* denominator of the model is far below 1e12, so a negative q stays
\* negative after the floor is added).
PositiveLogArgument(a) == a.log_of.eps = 1 /\ a.log_of.q.n >= 0 /\ a.log_of.q.d > 0

\* C20 as stated: in every strategy, for every input, the value passed to the
\* logarithm is the combined probability plus 1e-12 and is strictly positive.
C20_LogArgumentPositive ==
    Ok => \A v \in Vocab :
             /\ out.result.lprobs[v].log_of.q = out.result.probs[v]
             /\ PositiveLogArgument(out.result.lprobs[v])

\* C20, amended: the value passed to the logarithm is the combined
\* probability plus 1e-12 in every strategy; it is strictly positive in every
\* strategy but the similarity-weighted one, and there too when no similarity
\* score is negative.
C20_LogArgumentPositiveUnlessNegativeScore ==
    Ok => \A v \in Vocab :
             /\ out.result.lprobs[v].log_of.q = out.result.probs[v]
             /\ out.result.lprobs[v].log_of.eps = 1
             /\ (out.result.strategy = "similarity"
                    => \A i \in 1..cfg.TM_num : batch.sim.scores[i].n >= 0)
                 => PositiveLogArgument(out.result.lprobs[v])

C20_Witness ==
    /\ Ok /\ out.result.strategy = "similarity" /\ cfg.TM_num = 2
    /\ \A i \in 1..2 : batch.sim.scores[i].n > 0
    /\ \E j \in 1..Len(batch.memory) : batch.memory[j].pad
    /\ \A v \in Vocab : PositiveLogArgument(out.result.lprobs[v])

\* A buffered_future_mask call has been made.
MaskCalled == mask_call.dim > 0

\* The cache a call found had to be rebuilt: empty, on another device, or
\* smaller than the tensor.
MustRebuild ==
    \/ Len(mask_call.before.mask) = 0
    \/ mask_call.before.device # mask_call.device
    \/ Len(mask_call.before.mask) < mask_call.dim

\* C29: a buffered_future_mask call with a tensor of length d returns a d x d
\* mask that is -inf strictly above the diagonal and 0 on and below it; the
\* cache is replaced (by a d x d mask) only when the call found it empty, on
\* another device or smaller than d, and is kept otherwise, so that a call
\* on the device of the cache never makes the cache smaller.
C29_FutureMask ==
    MaskCalled =>
        /\ Len(mask_call.returned) = mask_call.dim
        /\ \A i \in 1..mask_call.dim :
              /\ Len(mask_call.returned[i]) = mask_call.dim
              /\ \A j \in 1..mask_call.dim :
                    mask_call.returned[i][j] = IF j > i THEN "-inf" ELSE "0"
        /\ future_mask.device = mask_call.device
        /\ IF MustRebuild
           THEN Len(future_mask.mask) = mask_call.dim
           ELSE future_mask.mask = mask_call.before.mask
        /\ mask_call.before.device = mask_call.device =>
              Len(future_mask.mask) >= Len(mask_call.before.mask)

\* A call with a shorter tensor found a longer cache on its device.
C29_Witness ==
    /\ MaskCalled
    /\ mask_call.dim = 2
    /\ Len(mask_call.before.mask) = 3
    /\ mask_call.before.device = mask_call.device
    /\ Len(future_mask.mask) = 3

InBlock(i, j) == (i - 1) * BlockSize < j /\ j <= i * BlockSize

\* The last call's batch with memory position j replaced by p.
Altered(j, p) == [batch EXCEPT !.memory[j] = p]

\* The last call's configuration with another learned weighting (or none).
Reweighted(learnable_p, model) ==
    [cfg EXCEPT !.with_TM_learnable_p = learnable_p,
                !.with_TM_learnable_p_model = model]

\* C21: with with_TM_ensemble = true, exemplar i's record (attention, gates,
\* vocabulary softmax, probabilities after the copy scatter) is the one
\* computed from the decoder state and block i of the memory alone: it does
\* not change when a memory position outside block i is replaced, nor when
\* the learned weighting unit is another one or is switched off.
C21_ExemplarIndependent ==
    (Ok /\ cfg.with_TM_ensemble) =>
        /\ \A i \in 1..Len(out.result.exemplars) :
              /\ out.result.exemplars[i] = BlockExemplar(i)
              /\ \A j \in 1..Len(batch.memory) :
                    \A t \in Vocab, p \in BOOLEAN :
                        (/\ ~InBlock(i, j)
                         /\ Position(t, p) # batch.memory[j]
                         /\ Attendable(cfg, Altered(j, Position(t, p))))
                            => forward(cfg, Altered(j, Position(t, p))).result.exemplars[i]
                                   = out.result.exemplars[i]
        /\ forward(Reweighted(FALSE, None), batch).result.exemplars
               = out.result.exemplars
        /\ \A m \in Learned :
              forward(Reweighted(TRUE, m), batch).result.exemplars
                  = out.result.exemplars

\* A learned weighting of two exemplars: replacing a position of the second
\* block changes the second exemplar and the weights, not the first exemplar.
C21_Witness ==
    /\ Ok /\ out.result.strategy = "attention" /\ cfg.TM_num = 2
    /\ Len(batch.memory) = 4
    /\ \E t \in Vocab :
          LET alt == forward(cfg, Altered(3, Position(t, FALSE))).result
          IN  /\ alt.exemplars[2] # out.result.exemplars[2]
              /\ alt.weights # out.result.weights
              /\ alt.exemplars[1] = out.result.exemplars[1]

\* C22: in every strategy a forward call leaves its inputs as it found them:
\* the only in-place operation, probs.scatter_add_, writes to a tensor the
\* call created itself, so memory_encoder_out, memory_encoder_padding_mask,
\* TMs, TMs_similarity and the decoder state are unchanged after the call,
\* and every exemplar is computed from the decoder state extract_features
\* returned (exemplar i + 1 sees the state exemplar i saw).
C22_InputsUnchanged ==
    Called =>
        /\ out.after = batch
        /\ Written = {"new"}
        /\ \A i \in 1..Len(out.result.exemplars) :
              /\ StateSeen(batch.x, i) = batch.x
              /\ out.result.exemplars[i] = BlockExemplar(i)

\* Two exemplars were computed and the second one scattered copy mass.
C22_Witness ==
    /\ Ok /\ out.result.strategy = "similarity" /\ cfg.TM_num = 2
    /\ Len(out.result.exemplars) = 2
    /\ out.result.exemplars[2].copy_gate.n > 0
    /\ batch.x = 1
    /\ out.after = batch

\* C23: with with_TM_ensemble = true, TMs_similarity[0] = None and
\* with_TM_learnable_p = false, a forward call that returns has split the
\* memory into TM_num exemplars, one per block, and returns
\* log((1 / TM_num) * sum of the exemplars' probabilities + 1e-12).
C23_MeanOfExemplars ==
    (Ok /\ cfg.with_TM_ensemble /\ batch.sim.kind = "None"
        /\ ~cfg.with_TM_learnable_p)
        => /\ out.ran = {"mean"}
           /\ Len(out.result.exemplars) = cfg.TM_num
           /\ \A v \in Vocab :
                 out.result.lprobs[v] =
                     [log_of |->
                         [q |-> QMul(Q(1, cfg.TM_num),
                                     QSumSeq([i \in 1..cfg.TM_num |->
                                                 BlockExemplar(i).probs[v]])),
                          eps |-> 1]]

\* Two exemplars with different probabilities: the mean is not the sum.
C23_Witness ==
    /\ Ok /\ cfg.with_TM_ensemble /\ batch.sim.kind = "None"
    /\ ~cfg.with_TM_learnable_p /\ cfg.TM_num = 2
    /\ Len(batch.memory) = 2
    /\ BlockExemplar(1).probs # BlockExemplar(2).probs
    /\ out.result.lprobs[0].log_of.q = ExemplarMean(0)
    /\ out.result.lprobs[0].log_of.q # ExemplarSum(0)

\* C24: with with_TM_ensemble = false the memory is not split: one exemplar
\* is computed, its alignment softmax ranges over every position of the
\* packed memory, the result is log(p + 1e-12) of that one pass, and the
\* same result comes out when TM_num is any other number, when
\* with_TM_learnable_p and the model name are any others, and when the
\* TMs_similarity entry is any other (absent, None or scores).
C24_NoEnsembleIsOnePass ==
    (Ok /\ ~cfg.with_TM_ensemble)
        => /\ out.ran = {"no_ensemble"}
           /\ Len(out.result.exemplars) = 1
           /\ Len(out.result.exemplars[1].alignment_weight) = Len(batch.memory)
           /\ out.result.exemplars[1] =
                 ExemplarProbs(batch.x, MemoryOf(batch), PaddingMaskOf(batch),
                               CopySeqOf(batch))
           /\ out.result.lprobs = LogFloor(out.result.exemplars[1].probs)
           /\ \A n \in 1..MaxTMNum \cup {DefaultTMNum} :
                 forward([cfg EXCEPT !.TM_num = n], batch).result = out.result
           /\ \A d \in {SimMissing, SimNone} \cup {SimTensor(r) : r \in FusionSimRows} :
                 forward(cfg, [batch EXCEPT !.sim = d]).result = out.result
           /\ forward(Reweighted(FALSE, None), batch).result = out.result
           /\ \A m \in Learned :
                 forward(Reweighted(TRUE, m), batch).result = out.result

\* A single pass over four positions, two of them with non-zero weight, in a
\* decoder configured with TM_num = 2 and given similarity scores.
C24_Witness ==
    /\ Ok /\ ~cfg.with_TM_ensemble /\ cfg.TM_num = 2
    /\ batch.sim.kind = "Tensor"
    /\ Len(batch.memory) = 4
    /\ Len(out.result.exemplars) = 1
    /\ out.result.exemplars[1].alignment_weight[1].n > 0
    /\ out.result.exemplars[1].alignment_weight[4].n > 0

\* C25: in the similarity-weighted strategy the weight of exemplar i is the
\* score TMs_similarity[b, i] itself; it has no target-position and no
\* vocabulary axis (it is broadcast over both) and is the same whatever the
\* decoder state at the position is, and every vocabulary id of exemplar i
\* is multiplied by it. The learned weightings index their weights by
\* batch element, target position and exemplar.
C25_SimilarityWeightPerExemplar ==
    /\ (Ok /\ out.result.strategy = "similarity")
          => /\ Len(out.result.weights) = cfg.TM_num
             /\ \A i \in 1..cfg.TM_num : out.result.weights[i] = batch.sim.scores[i]
             /\ out.result.weight_axes = <<"B", "1", "1">>
             /\ \A x \in XVals :
                   forward(cfg, [batch EXCEPT !.x = x]).result.weights
                       = out.result.weights
             /\ \A v \in Vocab :
                   out.result.probs[v] =
                       QSumSeq([i \in 1..cfg.TM_num |->
                                   QMul(batch.sim.scores[i],
                                        out.result.exemplars[i].probs[v])])
    /\ (Ok /\ out.result.strategy \in Learned)
          => /\ out.result.weight_axes = <<"B", "T", "1">>
             /\ Len(out.result.weights) = cfg.TM_num

\* Two exemplars with the scores 7/10 and 3/10, at a position whose state is 1.
C25_Witness ==
    /\ Ok /\ out.result.strategy = "similarity" /\ cfg.TM_num = 2
    /\ batch.x = 1
    /\ batch.sim.scores[1] = Q(7, 10)
    /\ out.result.weights = <<Q(7, 10), Q(3, 10)>>
    /\ out.result.exemplars[1].probs # out.result.exemplars[2].probs

\* C26: every exemplar's probabilities sum to 1 over the vocabulary; the
\* combined probabilities before the log sum to 1 in the unweighted ensemble
\* and in the four learned weightings (whose weights are non-negative and
\* sum to 1), and to the sum of the TM_num similarity scores in the
\* similarity-weighted strategy.
C26_CombinedMass ==
    (Ok /\ cfg.with_TM_ensemble) =>
        /\ \A i \in 1..Len(out.result.exemplars) :
              QSumOver(out.result.exemplars[i].probs, Vocab) = QOne
        /\ out.result.strategy = "mean"
              => QSumOver(out.result.probs, Vocab) = QOne
        /\ out.result.strategy \in Learned
              => /\ QSumOver(out.result.probs, Vocab) = QOne
                 /\ QSumSeq(out.result.weights) = QOne
                 /\ \A i \in 1..cfg.TM_num : out.result.weights[i].n >= 0
        /\ out.result.strategy = "similarity"
              => QSumOver(out.result.probs, Vocab)
                    = QSumSeq([i \in 1..cfg.TM_num |-> batch.sim.scores[i]])

\* Scores 1 and 3/10: the combined mass is their sum 13/10, not 1.
C26_Witness ==
    /\ Ok /\ out.result.strategy = "similarity" /\ cfg.TM_num = 2
    /\ batch.sim.scores[1] = Q(1, 1)
    /\ QSumOver(out.result.probs, Vocab) = Q(13, 10)

\* The configuration file names a weighting model that is not one of the six.
FileNamesUnknownModel ==
    file.exists /\ \E i \in 1..Len(file.lines) :
                      /\ Len(file.lines[i]) = 2
                      /\ file.lines[i][1] = "with_TM_learnable_p_model"
                      /\ file.lines[i][2] \notin ModelNames

\* C27: a file that parses and sets with_TM_ensemble = true,
\* with_TM_learnable_p = true and a model name that is not one of the six
\* builds a decoder with no weighting parameter; its forward calls without
\* similarity scores run the unweighted mean branch and return what the same
\* decoder with with_TM_learnable_p = false returns.
C27_UnknownModelFallsBackToMean ==
    (/\ pc # "new" /\ ReadConfig(file).error = None
     /\ FileSetsTrue("with_TM_ensemble") /\ FileSetsTrue("with_TM_learnable_p")
     /\ FileNamesUnknownModel)
        => /\ pc = "built"
           /\ params = {}
           /\ cfg.with_TM_learnable_p /\ cfg.with_TM_learnable_p_model \notin ModelNames
           /\ (Dispatched /\ batch.sim.kind = "None")
                 => /\ out.ran = {"mean"}
                    /\ out.result.strategy = "mean"
                    /\ out.result = forward(Reweighted(FALSE, None), batch).result

\* Such a decoder returned the mean of two exemplars.
C27_Witness ==
    /\ pc = "built" /\ file = FileOf("true", "2", "true", "other")
    /\ params = {}
    /\ Ok /\ batch.sim.kind = "None"
    /\ out.result.strategy = "mean"
    /\ Len(out.result.exemplars) = 2

\* The value the last line of the file that sets key gives it.
FileValue(key) ==
    LET i == CHOOSE k \in 1..Len(file.lines) :
                 /\ Len(file.lines[k]) = 2 /\ file.lines[k][1] = key
                 /\ \A j \in (k + 1)..Len(file.lines) :
                       ~(Len(file.lines[j]) = 2 /\ file.lines[j][1] = key)
    IN  file.lines[i][2]

\* Every line of the file is blank or splits into a key and a value.
FileLinesSplit ==
    \A i \in 1..Len(file.lines) : file.lines[i] = <<"">> \/ Len(file.lines[i]) = 2

TrueWords == {"true", "True", "TRUE"}

FalseWords == {"false", "False", "FALSE"}

\* C28: with a configuration file, construction raises ValueError when a
\* non-blank line does not split on "=" into exactly two parts, and raises
\* an error when with_TM_ensemble or with_TM_learnable_p is given a value
\* that is neither true nor false in any case; a decoder that is built has
\* each flag at the value the file gives it (boolean, integer, string) or,
\* when the file does not set it, at its default.
C28_ConfigParsing ==
    (pc # "new" /\ file.exists) =>
        /\ ~FileLinesSplit => pc = "ValueError"
        /\ (/\ FileLinesSplit
            /\ \E key \in {"with_TM_ensemble", "with_TM_learnable_p"} :
                  FileSets(key) /\ FileValue(key) \notin TrueWords \cup FalseWords)
              => pc \in {"AssertionError", "ValueError"}
        /\ pc = "built" =>
              /\ cfg.with_TM_ensemble =
                    IF FileSets("with_TM_ensemble")
                    THEN FileValue("with_TM_ensemble") \in TrueWords ELSE FALSE
              /\ cfg.with_TM_learnable_p =
                    IF FileSets("with_TM_learnable_p")
                    THEN FileValue("with_TM_learnable_p") \in TrueWords ELSE FALSE
              /\ cfg.TM_num =
                    IF FileSets("TM_num")
                    THEN CHOOSE n \in 1..5 : NumStr[n] = FileValue("TM_num")
                    ELSE 5
              /\ cfg.with_TM_learnable_p_model =
                    IF FileSets("with_TM_learnable_p_model")
                    THEN FileValue("with_TM_learnable_p_model") ELSE "<None>"

\* A good line followed by a line without "=": construction raised ValueError.
C28_Witness ==
    /\ pc = "ValueError"
    /\ file.exists /\ Len(file.lines) = 3
    /\ Len(file.lines[1]) = 2 /\ Len(file.lines[3]) = 1
    /\ file.lines[3] # <<"">>

====
